---- MODULE Spec2Model ----
(***************************************************************************)
(* Model of sokol-shdc's command line front end, src/shdc/args.cc:         *)
(* args_t::parse, parse_slang, validate and the help printer.              *)
(*                                                                         *)
(* Strings are sequences of lexical atoms.  An atom is either one of the   *)
(* single characters "-" and ":" , a single letter ("h", "i", ...), or a   *)
(* chunk standing for a run of one or more characters that contains        *)
(* neither '-' nor ':' ("glsl330", "in.glsl", "bogus").  Chunks of more    *)
(* than one character occur only in tokens that do not start with '-'.     *)
(* The empty string is <<>>.                                               *)
(*                                                                         *)
(* stderr holds what the running call of parse (and a dump of its result)  *)
(* has written; calls holds, for every earlier call of parse in the same   *)
(* process, its argument list, its result and what it wrote.               *)
(***************************************************************************)
EXTENDS Integers, Sequences, FiniteSets, TLC

VARIABLES argv, ctx, opt, args, stderr, pc, calls

vars == <<argv, ctx, opt, args, stderr, pc, calls>>

----------------------------------------------------------------------------
(* Bounds of the model *)

\* largest number of argument units (a flag, a flag with its value, a bare
\* word) an argument list is built from
MaxUnits == 4

\* largest number of atoms in the string handed to parse_slang on its own
MaxSlangLen == 5

\* largest number of calls of parse in one process
MaxCalls == 3

\* largest number of argument units of the lists whose runs are followed to
\* their end under fairness
MaxFairUnits == 3

----------------------------------------------------------------------------
(* slang_t (types.h): the shader language enumeration *)

SlangNames == <<"glsl330", "glsl100", "glsl300es", "hlsl5", "metal_macos", "metal_ios">>

NUM == 6

\* slang_t::to_str((slang_t::type_t)i), i in 0..NUM-1, as a std::string
to_str(i) == <<SlangNames[i + 1]>>

RECURSIVE Pow2(_)
Pow2(n) == IF n = 0 THEN 1 ELSE 2 * Pow2(n - 1)

\* slang_t::bit(c) == (1 << c)
bit(i) == Pow2(i)

\* mutant: '+=' written for '|='
BitOr_Add(a, b) == a + b

\* a | b on uint32_t
RECURSIVE BitOr(_, _)
BitOr(a, b) ==
    IF a = 0 THEN b
    ELSE IF b = 0 THEN a
    ELSE (IF a % 2 = 1 \/ b % 2 = 1 THEN 1 ELSE 0) + 2 * BitOr(a \div 2, b \div 2)

\* (mask & bit(i)) != 0
HasBit(mask, i) == (mask \div Pow2(i)) % 2 = 1

\* a default-constructed args_t
args_t_default ==
    [valid |-> FALSE, exit_code |-> 0, input |-> <<>>, output |-> <<>>,
     slang |-> 0, byte_code |-> FALSE, debug_dump |-> FALSE]

----------------------------------------------------------------------------
(* option_list and the getopt scanner *)

\* the rows of option_list: long name, short name, type, value
option_list ==
    << [name |-> "help",     name_short |-> "h", type |-> "NO_ARG",   value |-> "h"],
       [name |-> "input",    name_short |-> "i", type |-> "REQUIRED", value |-> "i"],
       [name |-> "output",   name_short |-> "o", type |-> "REQUIRED", value |-> "o"],
       [name |-> "slang",    name_short |-> "l", type |-> "REQUIRED", value |-> "l"],
       [name |-> "bytecode", name_short |-> "b", type |-> "NO_ARG",   value |-> "b"],
       [name |-> "dump",     name_short |-> "d", type |-> "NO_ARG",   value |-> "d"] >>

NUL == "\\0"

\* tok[k] of a C string, k counted from 0; the terminator past the last atom
CharAt(tok, k) == IF k < Len(tok) THEN tok[k + 1] ELSE NUL

\* getopt_create_context: fails when a row uses one of the reserved values
getopt_create_context(opts) ==
    IF \E k \in 1..Len(opts) : opts[k].value \in {"!", "?", "+", "-1"}
    THEN -1 ELSE 0

\* index of the first row of opts whose short name is c, 0 when there is none
FindShort(opts, c) ==
    IF \E k \in 1..Len(opts) : opts[k].name_short = c
    THEN CHOOSE k \in 1..Len(opts) :
            /\ opts[k].name_short = c
            /\ \A j \in 1..(k - 1) : opts[j].name_short # c
    ELSE 0

\* getopt_next on the tokens av with the context c (0-based current_index):
\* the returned code and the context afterwards.  Tokens are short options,
\* bare words, and the malformed "-"; a token is empty only as the value
\* that follows -l.
getopt_next(av, c) ==
    IF c.current_index = Len(av)
    THEN [ret |-> "-1", ctx |-> c]
    ELSE
      LET curr_token == av[c.current_index + 1]
          idx1 == c.current_index + 1
      IN
      IF CharAt(curr_token, 0) # "-"
      THEN [ret |-> "+", ctx |-> [current_index |-> idx1, current_opt_arg |-> curr_token]]
      ELSE IF CharAt(curr_token, 1) # NUL /\ CharAt(curr_token, 1) # "-"
              /\ CharAt(curr_token, 2) = NUL
      THEN
        LET k == FindShort(option_list, CharAt(curr_token, 1)) IN
        IF k = 0
        THEN [ret |-> "?", ctx |-> [current_index |-> idx1, current_opt_arg |-> curr_token]]
        ELSE
          LET found_opt == option_list[k]
              has_arg == /\ idx1 # Len(av)
                         /\ CharAt(av[idx1 + 1], 0) # "-"
                         /\ found_opt.type = "REQUIRED"
          IN
          IF has_arg
          THEN [ret |-> found_opt.value,
                ctx |-> [current_index |-> idx1 + 1, current_opt_arg |-> av[idx1 + 1]]]
          ELSE IF found_opt.type = "REQUIRED"
          THEN [ret |-> "!",
                ctx |-> [current_index |-> idx1, current_opt_arg |-> <<found_opt.name>>]]
          ELSE [ret |-> found_opt.value,
                ctx |-> [current_index |-> idx1, current_opt_arg |-> <<>>]]
      ELSE [ret |-> "!", ctx |-> [current_index |-> idx1, current_opt_arg |-> curr_token]]

----------------------------------------------------------------------------
(* the format strings written to stderr *)

FmtCreateError == "error in getopt_create_context()"
FmtStray == "got argument without flag: {}"
FmtUnknownFlag == "unknown flag {}"
FmtInvalidUse == "invalid use of flag {}"
FmtUnknownSlang == "error: unknown shader language '{}'"
FmtNoInput == "error: no input file (--input [path])"
FmtNoOutput == "error: no output file (--output [path])"
FmtNoSlang == "error: no shader languages (--slang ...)"
FmtHelpText == "Shader compiler / code generator for sokol_gfx.h ... Options:"
FmtHelpOptions == "getopt_create_help_string(&ctx, buf, sizeof(buf))"

----------------------------------------------------------------------------
(* pystring::split(str, result, ":") *)

RECURSIVE split_from(_, _, _, _)
split_from(str, sep, k, cur) ==
    IF k > Len(str) THEN <<cur>>
    ELSE IF str[k] = sep THEN <<cur>> \o split_from(str, sep, k + 1, <<>>)
    ELSE split_from(str, sep, k + 1, Append(cur, str[k]))

split(str, sep) == split_from(str, sep, 1, <<>>)

----------------------------------------------------------------------------
(* parse_slang *)

\* mutant: the loop stops one short ('i < NUM - 1')
MatchSlang_OffByOne(item) ==
    IF \E i \in 0..(NUM - 2) : item = to_str(i)
    THEN CHOOSE i \in 0..(NUM - 2) :
            /\ item = to_str(i)
            /\ \A j \in 0..(i - 1) : item # to_str(j)
    ELSE NUM

\* the inner for loop: the first i in 0..NUM-1 with item == to_str(i), or NUM
MatchSlang(item) ==
    IF \E i \in 0..(NUM - 1) : item = to_str(i)
    THEN CHOOSE i \in 0..(NUM - 1) :
            /\ item = to_str(i)
            /\ \A j \in 0..(i - 1) : item # to_str(j)
    ELSE NUM

\* mutant: the unknown item is reported but the loop goes on ('continue'
\* for 'return false')
RECURSIVE parse_slang_items_continue(_, _, _)
parse_slang_items_continue(a, splits, k) ==
    IF k > Len(splits)
    THEN [ok |-> TRUE, args |-> a, out |-> <<>>]
    ELSE
      LET item == splits[k]
          i == MatchSlang(item)
      IN
      IF i < NUM
      THEN parse_slang_items_continue([a EXCEPT !.slang = BitOr(a.slang, bit(i))], splits, k + 1)
      ELSE
        LET r == parse_slang_items_continue([a EXCEPT !.valid = FALSE, !.exit_code = 10],
                                            splits, k + 1)
        IN [ok |-> FALSE, args |-> r.args,
            out |-> << [fmt |-> FmtUnknownSlang, arg |-> item] >> \o r.out]

\* mutant: the error path leaves exit_code as it was
RECURSIVE parse_slang_items_noexit(_, _, _)
parse_slang_items_noexit(a, splits, k) ==
    IF k > Len(splits)
    THEN [ok |-> TRUE, args |-> a, out |-> <<>>]
    ELSE
      LET item == splits[k]
          i == MatchSlang(item)
      IN
      IF i < NUM
      THEN parse_slang_items_noexit([a EXCEPT !.slang = BitOr(a.slang, bit(i))], splits, k + 1)
      ELSE [ok |-> FALSE,
            args |-> [a EXCEPT !.valid = FALSE],
            out |-> << [fmt |-> FmtUnknownSlang, arg |-> item] >>]

\* mutant: empty items are skipped ('if (item.empty()) continue;')
RECURSIVE parse_slang_items_skipempty(_, _, _)
parse_slang_items_skipempty(a, splits, k) ==
    IF k > Len(splits)
    THEN [ok |-> TRUE, args |-> a, out |-> <<>>]
    ELSE
      LET item == splits[k]
          i == MatchSlang(item)
      IN
      IF item = <<>>
      THEN parse_slang_items_skipempty(a, splits, k + 1)
      ELSE IF i < NUM
      THEN parse_slang_items_skipempty([a EXCEPT !.slang = BitOr(a.slang, bit(i))], splits, k + 1)
      ELSE [ok |-> FALSE,
            args |-> [a EXCEPT !.valid = FALSE, !.exit_code = 10],
            out |-> << [fmt |-> FmtUnknownSlang, arg |-> item] >>]

\* mutant: the error path clears the mask
RECURSIVE parse_slang_items_rollback(_, _, _)
parse_slang_items_rollback(a, splits, k) ==
    IF k > Len(splits)
    THEN [ok |-> TRUE, args |-> a, out |-> <<>>]
    ELSE
      LET item == splits[k]
          i == MatchSlang(item)
      IN
      IF i < NUM
      THEN parse_slang_items_rollback([a EXCEPT !.slang = BitOr(a.slang, bit(i))], splits, k + 1)
      ELSE [ok |-> FALSE,
            args |-> [a EXCEPT !.valid = FALSE, !.exit_code = 10, !.slang = 0],
            out |-> << [fmt |-> FmtUnknownSlang, arg |-> item] >>]

\* the outer for loop over splits from position k on
RECURSIVE parse_slang_items(_, _, _)
parse_slang_items(a, splits, k) ==
    IF k > Len(splits)
    THEN [ok |-> TRUE, args |-> a, out |-> <<>>]
    ELSE
      LET item == splits[k]
          i == MatchSlang(item)
      IN
      IF i < NUM
      THEN parse_slang_items([a EXCEPT !.slang = BitOr(a.slang, bit(i))], splits, k + 1)
      ELSE [ok |-> FALSE,
            args |-> [a EXCEPT !.valid = FALSE, !.exit_code = 10],
            out |-> << [fmt |-> FmtUnknownSlang, arg |-> item] >>]

\* mutant: the mask is not cleared first
parse_slang_noreset(a, str) ==
    parse_slang_items(a, split(str, ":"), 1)

parse_slang(a, str) ==
    parse_slang_items([a EXCEPT !.slang = 0], split(str, ":"), 1)

----------------------------------------------------------------------------
(* validate *)

\* the three messages of validate
NoInputMsg(a) == IF a.input = <<>> THEN << [fmt |-> FmtNoInput, arg |-> <<>>] >> ELSE <<>>
NoOutputMsg(a) == IF a.output = <<>> THEN << [fmt |-> FmtNoOutput, arg |-> <<>>] >> ELSE <<>>
NoSlangMsg(a) == IF a.slang = 0 THEN << [fmt |-> FmtNoSlang, arg |-> <<>>] >> ELSE <<>>

\* mutant: the slang check is missing
validate_noslang(a) ==
    LET err == a.input = <<>> \/ a.output = <<>> IN
      [args |-> IF err THEN [a EXCEPT !.valid = FALSE, !.exit_code = 10]
                       ELSE [a EXCEPT !.valid = TRUE, !.exit_code = 0],
       out |-> NoInputMsg(a) \o NoOutputMsg(a)]

\* mutant: the output check is missing
validate_nooutput(a) ==
    LET err == a.input = <<>> \/ a.slang = 0 IN
      [args |-> IF err THEN [a EXCEPT !.valid = FALSE, !.exit_code = 10]
                       ELSE [a EXCEPT !.valid = TRUE, !.exit_code = 0],
       out |-> NoInputMsg(a) \o NoSlangMsg(a)]

\* mutant: the checks are chained with 'else if', only the first failing one reports
validate_shortcircuit(a) ==
    LET err == a.input = <<>> \/ a.output = <<>> \/ a.slang = 0 IN
      [args |-> IF err THEN [a EXCEPT !.valid = FALSE, !.exit_code = 10]
                       ELSE [a EXCEPT !.valid = TRUE, !.exit_code = 0],
       out |-> IF a.input = <<>> THEN NoInputMsg(a)
               ELSE IF a.output = <<>> THEN NoOutputMsg(a)
               ELSE NoSlangMsg(a)]

\* mutant: the output check comes before the input check
validate_reordered(a) ==
    LET err == a.input = <<>> \/ a.output = <<>> \/ a.slang = 0 IN
      [args |-> IF err THEN [a EXCEPT !.valid = FALSE, !.exit_code = 10]
                       ELSE [a EXCEPT !.valid = TRUE, !.exit_code = 0],
       out |-> NoOutputMsg(a) \o NoInputMsg(a) \o NoSlangMsg(a)]

validate(a) ==
    LET m1 == IF a.input = <<>>
              THEN << [fmt |-> FmtNoInput, arg |-> <<>>] >>
              ELSE <<>>
        m2 == IF a.output = <<>>
              THEN << [fmt |-> FmtNoOutput, arg |-> <<>>] >>
              ELSE <<>>
        m3 == IF a.slang = 0
              THEN << [fmt |-> FmtNoSlang, arg |-> <<>>] >>
              ELSE <<>>
        err == a.input = <<>> \/ a.output = <<>> \/ a.slang = 0
    IN
      [args |-> IF err THEN [a EXCEPT !.valid = FALSE, !.exit_code = 10]
                       ELSE [a EXCEPT !.valid = TRUE, !.exit_code = 0],
       out |-> m1 \o m2 \o m3]

\* print_help_string: the usage text, then the generated option table
print_help_string ==
    << [fmt |-> FmtHelpText, arg |-> <<>>],
       [fmt |-> FmtHelpOptions, arg |-> <<>>] >>

----------------------------------------------------------------------------
(* The argument lists *)

Tok(a, b) == <<a, b>>

Units ==
    { << Tok("-", "h") >>,
      << Tok("-", "i"), <<"in.glsl">> >>,
      << Tok("-", "o"), <<"out.h">> >>,
      << Tok("-", "l"), <<"glsl330">> >>,
      << Tok("-", "l"), <<"hlsl5", ":", "glsl330">> >>,
      << Tok("-", "l"), <<"glsl330", ":", "bogus", ":", "hlsl5">> >>,
      << Tok("-", "b") >>,
      << Tok("-", "d") >>,
      << Tok("-", "x") >>,
      << Tok("-", "o") >>,
      << <<"in.glsl">> >>,
      << <<"-">> >> }

RECURSIVE Flatten(_)
Flatten(us) == IF us = <<>> THEN <<>> ELSE Head(us) \o Flatten(Tail(us))

ArgLists == { Flatten(us) : us \in UNION { [1..n -> Units] : n \in 0..MaxUnits } }

----------------------------------------------------------------------------
(* args_t::parse as a state machine *)

\* what fmt::print(stderr, ...) appends: each message with the number of
\* tokens consumed when it is written
Emit(out, c) ==
    stderr \o [k \in 1..Len(out) |-> [fmt |-> out[k].fmt, arg |-> out[k].arg,
                                       idx |-> c.current_index]]

Init ==
    /\ argv \in ArgLists
    /\ ctx = [current_index |-> 0, current_opt_arg |-> <<>>]
    /\ opt = "0"
    /\ args = args_t_default
    /\ stderr = <<>>
    /\ pc = "START"
    /\ calls = <<>>

\* lines 95-101
CreateContext ==
    /\ pc = "START"
    /\ IF getopt_create_context(option_list) < 0
       THEN /\ stderr' = Emit(<< [fmt |-> FmtCreateError, arg |-> <<>>] >>, ctx)
            /\ pc' = "VALIDATING"
       ELSE /\ stderr' = stderr
            /\ pc' = "SCANNING"
    /\ UNCHANGED <<argv, ctx, opt, args, calls>>

\* mutant: the scanner's position is not carried over to the next pass
Scan_NoAdvance(code) ==
    /\ pc = "SCANNING"
    /\ getopt_next(argv, ctx).ret = code
    /\ opt' = code
    /\ ctx' = [getopt_next(argv, ctx).ctx EXCEPT !.current_index = ctx.current_index]
    /\ UNCHANGED <<argv, calls>>

\* one pass through the loop head with getopt_next returning code
Scan(code) ==
    /\ pc = "SCANNING"
    /\ getopt_next(argv, ctx).ret = code
    /\ opt' = code
    /\ ctx' = getopt_next(argv, ctx).ctx
    /\ UNCHANGED <<argv, calls>>

\* the loop ends
ScanEnd ==
    /\ Scan("-1")
    /\ pc' = "VALIDATING"
    /\ UNCHANGED <<args, stderr>>

CaseStray ==
    /\ Scan("+")
    /\ stderr' = Emit(<< [fmt |-> FmtStray, arg |-> ctx'.current_opt_arg] >>, ctx')
    /\ UNCHANGED <<args, pc>>

\* mutant: 'return args' for 'break'
CaseUnknown_Abort ==
    /\ Scan("?")
    /\ stderr' = Emit(<< [fmt |-> FmtUnknownFlag, arg |-> ctx'.current_opt_arg] >>, ctx')
    /\ pc' = "DONE"
    /\ UNCHANGED args

CaseUnknown ==
    /\ Scan("?")
    /\ stderr' = Emit(<< [fmt |-> FmtUnknownFlag, arg |-> ctx'.current_opt_arg] >>, ctx')
    /\ UNCHANGED <<args, pc>>

CaseInvalid ==
    /\ Scan("!")
    /\ stderr' = Emit(<< [fmt |-> FmtInvalidUse, arg |-> ctx'.current_opt_arg] >>, ctx')
    /\ UNCHANGED <<args, pc>>

CaseInput ==
    /\ Scan("i")
    /\ args' = [args EXCEPT !.input = ctx'.current_opt_arg]
    /\ UNCHANGED <<stderr, pc>>

\* mutant: the value is stored in args.input
CaseOutput_ToInput ==
    /\ Scan("o")
    /\ args' = [args EXCEPT !.input = ctx'.current_opt_arg]
    /\ UNCHANGED <<stderr, pc>>

CaseOutput ==
    /\ Scan("o")
    /\ args' = [args EXCEPT !.output = ctx'.current_opt_arg]
    /\ UNCHANGED <<stderr, pc>>

\* mutant: the flag toggles the field
CaseByteCode_Toggle ==
    /\ Scan("b")
    /\ args' = [args EXCEPT !.byte_code = ~args.byte_code]
    /\ UNCHANGED <<stderr, pc>>

CaseByteCode ==
    /\ Scan("b")
    /\ args' = [args EXCEPT !.byte_code = TRUE]
    /\ UNCHANGED <<stderr, pc>>

CaseDump ==
    /\ Scan("d")
    /\ args' = [args EXCEPT !.debug_dump = TRUE]
    /\ UNCHANGED <<stderr, pc>>

\* mutant: 'break' for 'return args' after a failed parse_slang
CaseSlang_NoReturn ==
    /\ Scan("l")
    /\ LET r == parse_slang(args, ctx'.current_opt_arg) IN
         /\ args' = r.args
         /\ stderr' = Emit(r.out, ctx')
         /\ pc' = "SCANNING"

CaseSlang ==
    /\ Scan("l")
    /\ LET r == parse_slang(args, ctx'.current_opt_arg) IN
         /\ args' = r.args
         /\ stderr' = Emit(r.out, ctx')
         /\ pc' = IF r.ok THEN "SCANNING" ELSE "SLANG_ERROR"

\* mutant: the help path returns a newly constructed args_t
CaseHelp_Fresh ==
    /\ Scan("h")
    /\ stderr' = Emit(print_help_string, ctx')
    /\ args' = [args_t_default EXCEPT !.valid = FALSE, !.exit_code = 0]
    /\ pc' = "HELP_REQUESTED"

\* mutant: 'break' for 'return args'
CaseHelp_NoReturn ==
    /\ Scan("h")
    /\ stderr' = Emit(print_help_string, ctx')
    /\ args' = [args EXCEPT !.valid = FALSE, !.exit_code = 0]
    /\ pc' = "SCANNING"

CaseHelp ==
    /\ Scan("h")
    /\ stderr' = Emit(print_help_string, ctx')
    /\ args' = [args EXCEPT !.valid = FALSE, !.exit_code = 0]
    /\ pc' = "HELP_REQUESTED"

\* lines 141-142
Validate ==
    /\ pc = "VALIDATING"
    /\ LET r == validate(args) IN
         /\ args' = r.args
         /\ stderr' = Emit(r.out, ctx)
    /\ pc' = "DONE"
    /\ UNCHANGED <<argv, ctx, opt, calls>>

Next ==
    \/ CreateContext
    \/ ScanEnd
    \/ CaseStray
    \/ CaseUnknown
    \/ CaseInvalid
    \/ CaseInput
    \/ CaseOutput
    \/ CaseByteCode
    \/ CaseDump
    \/ CaseSlang
    \/ CaseHelp
    \/ Validate

Spec == Init /\ [][Next]_vars

\* parse has returned
Returned == pc \in {"DONE", "HELP_REQUESTED", "SLANG_ERROR"}

TypeOK ==
    /\ pc \in {"START", "SCANNING", "VALIDATING", "DONE", "HELP_REQUESTED", "SLANG_ERROR",
              "DUMPED"}
    /\ ctx.current_index \in 0..Len(argv)
    /\ args.valid \in BOOLEAN
    /\ args.exit_code \in {0, 10}
    /\ args.slang \in 0..(Pow2(NUM) - 1)

----------------------------------------------------------------------------
(* parse on the argument list  -l <str>  for every short string <str> *)

SlangAlphabet == {"glsl330", "hlsl5", "metal_ios", ":", "bogus"}

SlangStrings == UNION { [1..n -> SlangAlphabet] : n \in 0..MaxSlangLen }

InitSlang ==
    /\ argv \in { << Tok("-", "l"), s >> : s \in SlangStrings }
    /\ ctx = [current_index |-> 0, current_opt_arg |-> <<>>]
    /\ opt = "0"
    /\ args = args_t_default
    /\ stderr = <<>>
    /\ pc = "START"
    /\ calls = <<>>

NextSlang ==
    \/ CreateContext
    \/ CaseSlang
    \/ ScanEnd
    \/ Validate

SlangSpec == InitSlang /\ [][NextSlang]_vars

----------------------------------------------------------------------------
(* Vocabulary of the properties *)

HelpTok == Tok("-", "h")

\* the three checks of the Validator on the returned fields
ChecksPass == args.input # <<>> /\ args.output # <<>> /\ args.slang # 0

IsValidationDiag(m) == m.fmt \in {FmtNoInput, FmtNoOutput, FmtNoSlang}
IsScanDiag(m) == m.fmt \in {FmtStray, FmtUnknownFlag, FmtInvalidUse}

Emitted(f) == \E k \in 1..Len(stderr) : stderr[k].fmt = f

NoValidationDiag == \A k \in 1..Len(stderr) : ~IsValidationDiag(stderr[k])

\* the languages whose name is written in str
NamedIn(str) == { i \in 0..(NUM - 1) : \E k \in 1..Len(str) : str[k] = SlangNames[i + 1] }

\* the ':'-separated segments of str, as positions: segment n is the atoms
\* strictly between the (n-1)th and the nth colon
ColonsBefore(str, k) == Cardinality({ j \in 1..(k - 1) : str[j] = ":" })
NumSegments(str) == 1 + Cardinality({ j \in 1..Len(str) : str[j] = ":" })
Segment(str, n) ==
    LET at == SelectSeq([k \in 1..Len(str) |-> k],
                        LAMBDA k : str[k] # ":" /\ ColonsBefore(str, k) = n - 1)
    IN [j \in 1..Len(at) |-> str[at[j]]]
IsName(seg) == \E i \in 1..NUM : seg = <<SlangNames[i]>>
UnknownSegments(str) == { n \in 1..NumSegments(str) : ~IsName(Segment(str, n)) }
FirstUnknown(str) == CHOOSE n \in UnknownSegments(str) : \A m \in UnknownSegments(str) : n <= m

\* the languages named by a segment of str before segment n
NamedBefore(str, n) ==
    { i \in 0..(NUM - 1) : \E m \in 1..(n - 1) : Segment(str, m) = <<SlangNames[i + 1]>> }

\* token k of argv is the option -c followed by a value
SuppliedAt(c, k) ==
    /\ k < Len(argv)
    /\ argv[k] = Tok("-", c)
    /\ CharAt(argv[k + 1], 0) # "-"

\* a -l whose value has an unknown segment stands at token k
FailingSlangAt(k) == SuppliedAt("l", k) /\ UnknownSegments(argv[k + 1]) # {}

HelpPositions == { k \in 1..Len(argv) : argv[k] = HelpTok }
FirstHelp == CHOOSE k \in HelpPositions : \A j \in HelpPositions : k <= j

----------------------------------------------------------------------------
(* C1 *)

\* C1: when the scan ran to its end (no help flag processed, no -l value
\* with an unknown segment), parse returns valid=true and exitCode=0 if and
\* only if input is non-empty, output is non-empty and slangMask is non-zero,
\* and valid=false with exitCode=10 otherwise.
C1_ValidatorVerdict ==
    pc = "DONE" =>
        /\ (args.valid /\ args.exit_code = 0) <=> ChecksPass
        /\ ~ChecksPass => (~args.valid /\ args.exit_code = 10)

C1_Witness == pc = "DONE" /\ ChecksPass /\ args.valid /\ Len(argv) = 6

----------------------------------------------------------------------------
(* C2 *)

\* C2 as stated: every argument list that contains -h returns valid=false
\* and exitCode=0 with the help text and no validation diagnostic.
C2_Original ==
    (Returned /\ HelpPositions # {}) =>
        /\ ~args.valid
        /\ args.exit_code = 0
        /\ Emitted(FmtHelpText)
        /\ NoValidationDiag

\* C2 amended: every argument list that contains -h, and no -l with an
\* unknown segment in its value before the first -h, returns valid=false and
\* exitCode=0 with the help text emitted; and no argument list that contains
\* -h ever gets a validation diagnostic.
C2_HelpWins ==
    HelpPositions # {} =>
        /\ NoValidationDiag
        /\ (Returned /\ ~\E k \in 1..FirstHelp : FailingSlangAt(k)) =>
              /\ pc = "HELP_REQUESTED"
              /\ ~args.valid
              /\ args.exit_code = 0
              /\ Emitted(FmtHelpText)
              /\ Emitted(FmtHelpOptions)

C2_Witness ==
    /\ pc = "HELP_REQUESTED"
    /\ Emitted(FmtHelpText)
    /\ FirstHelp > 2
    /\ FirstHelp < Len(argv)
    /\ args.input # <<>>

----------------------------------------------------------------------------
(* C3 *)

\* C3: when the value given to -l has a segment that is no language name,
\* parse returns valid=false and exitCode=10 right there, and a language
\* named only after the first unknown segment does not get its bit set.
C3_StopsAtFirstUnknown ==
    (opt = "l" /\ UnknownSegments(ctx.current_opt_arg) # {}) =>
        /\ pc = "SLANG_ERROR"
        /\ ~args.valid
        /\ args.exit_code = 10
        /\ \A i \in 0..(NUM - 1) :
              i \notin NamedBefore(ctx.current_opt_arg, FirstUnknown(ctx.current_opt_arg))
                  => ~HasBit(args.slang, i)

\* the value glsl330:bogus:hlsl5 has been parsed
C3_Witness ==
    /\ opt = "l"
    /\ pc = "SLANG_ERROR"
    /\ ctx.current_opt_arg = <<"glsl330", ":", "bogus", ":", "hlsl5">>
    /\ ~HasBit(args.slang, 3)

----------------------------------------------------------------------------
(* C4 *)

\* C4: when parse_slang succeeds, slangMask has exactly the bits of the
\* languages named in the string: each named language's bit, no other bit,
\* however often a name is repeated.
C4_MaskIsUnion ==
    (opt = "l" /\ pc = "SCANNING") =>
        /\ \A i \in 0..(NUM - 1) :
              HasBit(args.slang, i) <=> i \in NamedIn(ctx.current_opt_arg)
        /\ args.slang < Pow2(NUM)

\* a success with a repeated name and a second language
C4_Witness ==
    /\ opt = "l"
    /\ pc = "SCANNING"
    /\ ctx.current_opt_arg = <<"hlsl5", ":", "glsl330", ":", "hlsl5">>
    /\ args.slang = 9

----------------------------------------------------------------------------
(* C5 *)

Positions(c) == { k \in 1..Len(argv) : argv[k] = Tok("-", c) }

\* the option -c stands once in argv, with a value
SuppliedOnce(c) == Cardinality(Positions(c)) = 1 /\ \A k \in Positions(c) : SuppliedAt(c, k)

ValueOf(c) == argv[(CHOOSE k \in Positions(c) : TRUE) + 1]

SingleNameSupplied ==
    /\ SuppliedOnce("i")
    /\ SuppliedOnce("o")
    /\ SuppliedOnce("l")
    /\ ValueOf("i") # <<>>
    /\ ValueOf("o") # <<>>
    /\ IsName(ValueOf("l"))

FieldsAsSupplied ==
    /\ args.valid
    /\ args.exit_code = 0
    /\ args.input = ValueOf("i")
    /\ args.output = ValueOf("o")
    /\ \E i \in 0..(NUM - 1) : ValueOf("l") = to_str(i) /\ args.slang = bit(i)

\* C5 as stated: every argument list in which -i, -o and -l each have a
\* (non-empty) value, the one of -l a single known language name, returns
\* valid=true, exitCode=0, input and output as supplied and that language's
\* bit alone.
C5_Original == (Returned /\ SingleNameSupplied) => FieldsAsSupplied

\* C5 amended: the same for every such argument list that has no help flag.
C5_SingleLanguage ==
    (Returned /\ SingleNameSupplied /\ HelpPositions = {})
    => (pc = "DONE" /\ FieldsAsSupplied)

C5_Witness ==
    /\ pc = "DONE"
    /\ SingleNameSupplied
    /\ args.valid
    /\ args.input = <<"in.glsl">>
    /\ args.output = <<"out.h">>
    /\ args.slang = 1
    /\ Len(argv) = 7

----------------------------------------------------------------------------
(* C6 *)

Count(f) == Cardinality({ k \in 1..Len(stderr) : stderr[k].fmt = f })

\* C6: the Validator reports every failing check, each once, and nothing
\* for a check that passes; the empty argument list gets all three messages
\* with valid=false and exitCode=10.  Nothing of this is written before the
\* Validator runs.
C6_AllChecksReported ==
    /\ pc # "DONE" => NoValidationDiag
    /\ pc = "DONE" =>
          /\ Count(FmtNoInput) = (IF args.input = <<>> THEN 1 ELSE 0)
          /\ Count(FmtNoOutput) = (IF args.output = <<>> THEN 1 ELSE 0)
          /\ Count(FmtNoSlang) = (IF args.slang = 0 THEN 1 ELSE 0)
          /\ argv = <<>> =>
                /\ Count(FmtNoInput) + Count(FmtNoOutput) + Count(FmtNoSlang) = 3
                /\ ~args.valid
                /\ args.exit_code = 10

C6_Witness == pc = "DONE" /\ argv = <<>> /\ Len(stderr) = 3

----------------------------------------------------------------------------
(* C7 *)

\* C7: parse is never stuck short of a return (in the loop, getopt_next
\* yields a code the switch handles or the end), and what it returns has exitCode 0 or
\* 10: 0 exactly for a success (all three checks passed) and for help, 10
\* exactly for a failed validation and for an unknown shader language.
C7_ExitCodes ==
    /\ ~Returned =>
          \/ pc \in {"START", "VALIDATING"}
          \/ /\ pc = "SCANNING"
             /\ getopt_next(argv, ctx).ret \in {"-1", "+", "?", "!", "i", "o", "b", "d", "l", "h"}
    /\ Returned =>
          /\ args.valid \in BOOLEAN
          /\ args.exit_code \in {0, 10}
          /\ args.exit_code = 0 <=>
                (pc = "HELP_REQUESTED" \/ (pc = "DONE" /\ ChecksPass))
          /\ args.exit_code = 10 <=>
                (pc = "SLANG_ERROR" \/ (pc = "DONE" /\ ~ChecksPass))

\* an unknown shader language after -i and -o were given
C7_Witness ==
    /\ pc = "SLANG_ERROR"
    /\ args.exit_code = 10
    /\ args.input # <<>>
    /\ args.output # <<>>

----------------------------------------------------------------------------
(* C8 *)

\* C8: a returned valid=true comes with a non-empty input, a non-empty
\* output, a non-zero slangMask and exitCode 0; a parse ended by the help
\* flag or by an unknown shader language returns valid=false.
C8_ValidImplies ==
    Returned =>
        /\ args.valid => (ChecksPass /\ args.exit_code = 0)
        /\ pc \in {"HELP_REQUESTED", "SLANG_ERROR"} => ~args.valid

C8_Witness == pc = "DONE" /\ args.valid /\ args.byte_code /\ args.slang = 9

----------------------------------------------------------------------------
(* C9 *)

UnknownTok == Tok("-", "x")

\* argv from token k on is made of unknown flags and of -i, -o, -l each with
\* a non-empty value, the one of -l without unknown segment
RECURSIVE CleanFrom(_)
CleanFrom(k) ==
    IF k > Len(argv) THEN TRUE
    ELSE IF argv[k] = UnknownTok THEN CleanFrom(k + 1)
    ELSE /\ \E c \in {"i", "o", "l"} : SuppliedAt(c, k)
         /\ argv[k + 1] # <<>>
         /\ argv[k] = Tok("-", "l") => UnknownSegments(argv[k + 1]) = {}
         /\ CleanFrom(k + 2)

ValidPlusUnknown ==
    /\ CleanFrom(1)
    /\ \A c \in {"i", "o", "l"} : Positions(c) # {}

C9_State ==
    /\ pc = "DONE" => (ctx.current_index = Len(argv) /\ (args.valid <=> ChecksPass))
    /\ (Returned /\ ValidPlusUnknown) => (pc = "DONE" /\ args.valid /\ args.exit_code = 0)

C9_Step ==
    (pc = "SCANNING" /\ opt' \in {"+", "?", "!"}) =>
        /\ pc' = "SCANNING"
        /\ args' = args
        /\ ctx'.current_index = ctx.current_index + 1
        /\ Len(stderr') = Len(stderr) + 1

\* C9: a stray word, an unknown flag or an invalid use of a flag consumes
\* its one token, changes no field and leaves the scan running; a finished
\* scan has consumed every token and its verdict is the Validator's; a list
\* of valid -i, -o, -l with unknown flags anywhere between them returns
\* valid=true, exitCode=0.
C9_ScanGoesOn == [][C9_Step]_vars /\ []C9_State

C9_Witness ==
    /\ pc = "DONE"
    /\ args.valid
    /\ ValidPlusUnknown
    /\ argv[1] = UnknownTok
    /\ Count(FmtUnknownFlag) = 1

----------------------------------------------------------------------------
(* C10 *)

Rank(f) == IF f = FmtNoInput THEN 1 ELSE IF f = FmtNoOutput THEN 2 ELSE 3

\* C10: stderr is in the order of discovery: the messages for stray words,
\* unknown flags and invalid uses follow the order of their tokens and name
\* them, one per token; no such message comes after a Validator message; the
\* Validator's messages come in the order input, output, slang.
C10_DiagnosticOrder ==
    /\ \A i, j \in 1..Len(stderr) : i < j =>
          /\ stderr[i].idx <= stderr[j].idx
          /\ (IsScanDiag(stderr[i]) /\ IsScanDiag(stderr[j])) => stderr[i].idx < stderr[j].idx
          /\ IsValidationDiag(stderr[i]) => ~IsScanDiag(stderr[j])
          /\ (IsValidationDiag(stderr[i]) /\ IsValidationDiag(stderr[j]))
                => Rank(stderr[i].fmt) < Rank(stderr[j].fmt)
    /\ \A i \in 1..Len(stderr) :
          /\ stderr[i].fmt \in {FmtStray, FmtUnknownFlag} => stderr[i].arg = argv[stderr[i].idx]
          /\ stderr[i].fmt = FmtUnknownFlag => stderr[i].arg = UnknownTok
          /\ stderr[i].fmt = FmtInvalidUse =>
                \/ stderr[i].arg = argv[stderr[i].idx]
                \/ \E k \in 1..Len(option_list) :
                      /\ argv[stderr[i].idx] = Tok("-", option_list[k].name_short)
                      /\ stderr[i].arg = <<option_list[k].name>>
          /\ IsValidationDiag(stderr[i]) => stderr[i].idx = Len(argv)
    /\ pc = "DONE" => Count(FmtUnknownFlag) = Cardinality(Positions("x"))

\* two scan messages of different kinds, then two Validator messages
C10_Witness ==
    /\ pc = "DONE"
    /\ Len(stderr) = 4
    /\ stderr[1].fmt = FmtUnknownFlag
    /\ stderr[2].fmt = FmtStray
    /\ stderr[3].fmt = FmtNoInput
    /\ stderr[4].fmt = FmtNoSlang

----------------------------------------------------------------------------
(* args_t::dump and the decoding of the mask *)

FmtDumpHeader == "args_t:"
FmtDumpValid == "  valid: {}"
FmtDumpExitCode == "  exit_code: {}"
FmtDumpInput == "  input:  '{}'"
FmtDumpOutput == "  output: '{}'"
FmtDumpSlang == "  slang:  '{}'"
FmtDumpByteCode == "  byte_code: {}"
FmtDumpDebugDump == "  debug_dump: {}"

\* slang_t::bits_to_str(mask): the names of the set bits i = from..NUM-1 in
\* the order of the enumeration, joined with ':' (sep: a name was written)
RECURSIVE bits_to_str_from(_, _, _)
bits_to_str_from(mask, from, sep) ==
    IF from >= NUM THEN <<>>
    ELSE IF HasBit(mask, from)
    THEN (IF sep THEN <<":">> ELSE <<>>) \o to_str(from) \o bits_to_str_from(mask, from + 1, TRUE)
    ELSE bits_to_str_from(mask, from + 1, sep)

bits_to_str(mask) == bits_to_str_from(mask, 0, FALSE)

\* fmt's rendering of a bool
fmt_bool(b) == IF b THEN <<"true">> ELSE <<"false">>

\* what args_t::dump() prints for a
dump(a) ==
    << [fmt |-> FmtDumpHeader, arg |-> <<>>],
       [fmt |-> FmtDumpValid, arg |-> fmt_bool(a.valid)],
       [fmt |-> FmtDumpExitCode, arg |-> <<ToString(a.exit_code)>>],
       [fmt |-> FmtDumpInput, arg |-> a.input],
       [fmt |-> FmtDumpOutput, arg |-> a.output],
       [fmt |-> FmtDumpSlang, arg |-> bits_to_str(a.slang)],
       [fmt |-> FmtDumpByteCode, arg |-> fmt_bool(a.byte_code)],
       [fmt |-> FmtDumpDebugDump, arg |-> fmt_bool(a.debug_dump)] >>

\* dump() called on the result parse returned
Dump ==
    /\ Returned
    /\ stderr' = Emit(dump(args), ctx)
    /\ pc' = "DUMPED"
    /\ UNCHANGED <<argv, ctx, opt, args, calls>>

\* the names of the languages p[1], p[2], ... joined with ':'
RECURSIVE Join(_)
Join(p) ==
    IF p = <<>> THEN <<>>
    ELSE IF Len(p) = 1 THEN to_str(p[1])
    ELSE to_str(p[1]) \o <<":">> \o Join(Tail(p))

\* the non-empty sets of languages, in every order of writing them
Orderings ==
    UNION { { p \in [1..n -> 0..(NUM - 1)] : \A i, j \in 1..n : i # j => p[i] # p[j] }
            : n \in 1..NUM }

InitRoundTrip ==
    /\ argv \in { << Tok("-", "l"), Join(p) >> : p \in Orderings }
    /\ ctx = [current_index |-> 0, current_opt_arg |-> <<>>]
    /\ opt = "0"
    /\ args = args_t_default
    /\ stderr = <<>>
    /\ pc = "START"
    /\ calls = <<>>

NextRoundTrip ==
    \/ CreateContext
    \/ CaseSlang
    \/ ScanEnd
    \/ Validate
    \/ Dump

RoundTripSpec == InitRoundTrip /\ [][NextRoundTrip]_vars

----------------------------------------------------------------------------
(* C11 *)

\* the string dump() printed for the mask
DumpedSlang == (CHOOSE m \in { stderr[k] : k \in 1..Len(stderr) } : m.fmt = FmtDumpSlang).arg

\* C11: for every non-empty set S of languages, written as its names joined
\* with ':' in any order, the mask parse makes of it decodes to a string that
\* names exactly the languages of S, each once.
C11_RoundTrip ==
    pc = "DUMPED" =>
        /\ NamedIn(argv[2]) # {}
        /\ NamedIn(DumpedSlang) = NamedIn(argv[2])
        /\ Len(DumpedSlang) = 2 * Cardinality(NamedIn(argv[2])) - 1
        /\ UnknownSegments(DumpedSlang) = {}

\* all six languages, written in the reverse of the enumeration's order
C11_Witness ==
    /\ pc = "DUMPED"
    /\ argv[2] = Join(<<5, 4, 3, 2, 1, 0>>)
    /\ DumpedSlang = Join(<<0, 1, 2, 3, 4, 5>>)

----------------------------------------------------------------------------
(* Several calls of parse in one process *)

\* the argument lists of the repeated calls: one unit at most
CallArgLists == { <<>> } \cup Units

\* mutant: args is a static object, not constructed anew by each call
ParseAgain_StaticArgs ==
    /\ Returned
    /\ Len(calls) < MaxCalls - 1
    /\ calls' = Append(calls, [argv |-> argv, args |-> args, stderr |-> stderr])
    /\ argv' \in CallArgLists
    /\ ctx' = [current_index |-> 0, current_opt_arg |-> <<>>]
    /\ opt' = "0"
    /\ args' = args
    /\ stderr' = <<>>
    /\ pc' = "START"

\* parse has returned and is called again (lines 94-96: a new args_t, a new
\* getopt context, opt = 0); what the new call writes is collected from empty
ParseAgain ==
    /\ Returned
    /\ Len(calls) < MaxCalls - 1
    /\ calls' = Append(calls, [argv |-> argv, args |-> args, stderr |-> stderr])
    /\ argv' \in CallArgLists
    /\ ctx' = [current_index |-> 0, current_opt_arg |-> <<>>]
    /\ opt' = "0"
    /\ args' = args_t_default
    /\ stderr' = <<>>
    /\ pc' = "START"

InitCalls ==
    /\ argv \in CallArgLists
    /\ ctx = [current_index |-> 0, current_opt_arg |-> <<>>]
    /\ opt = "0"
    /\ args = args_t_default
    /\ stderr = <<>>
    /\ pc = "START"
    /\ calls = <<>>

NextCalls == Next \/ ParseAgain

CallsSpec == InitCalls /\ [][NextCalls]_vars

----------------------------------------------------------------------------
(* C12 *)

\* the calls that have returned, the running one included once it has
ReturnedCalls ==
    IF Returned
    THEN Append(calls, [argv |-> argv, args |-> args, stderr |-> stderr])
    ELSE calls

\* C12: two calls of parse on the same argument list, whatever other calls
\* come before or between them, return the same seven fields and write the
\* same diagnostics.
C12_Deterministic ==
    \A i, j \in 1..Len(ReturnedCalls) :
        ReturnedCalls[i].argv = ReturnedCalls[j].argv =>
            /\ ReturnedCalls[i].args = ReturnedCalls[j].args
            /\ ReturnedCalls[i].stderr = ReturnedCalls[j].stderr

\* the same list parsed before and after a call that sets a field
C12_Witness ==
    /\ Returned
    /\ Len(calls) = 2
    /\ calls[1].argv = argv
    /\ calls[2].argv = << Tok("-", "b") >>
    /\ calls[2].args.byte_code
    /\ argv = << Tok("-", "i"), <<"in.glsl">> >>
    /\ calls[1].args = args
    /\ calls[1].stderr = stderr

----------------------------------------------------------------------------
(* C13 *)

\* the Validator runs in this step
ValidatorRuns == pc = "VALIDATING" /\ pc' = "DONE"

C13_Step ==
    /\ Returned => pc' = pc
    /\ pc' = "DONE" => ValidatorRuns
    /\ pc' = "VALIDATING" => (pc = "SCANNING" /\ opt' = "-1" /\ ctx.current_index = Len(argv))
    /\ pc' = "HELP_REQUESTED" => (pc = "SCANNING" /\ opt' = "h")
    /\ pc' = "SLANG_ERROR" => (pc = "SCANNING" /\ opt' = "l")
    /\ pc = "VALIDATING" => ValidatorRuns

C13_State ==
    /\ pc \in {"VALIDATING", "DONE"} =>
          (opt = "-1" /\ ~Emitted(FmtUnknownSlang) /\ ~Emitted(FmtHelpText))
    /\ pc \in {"HELP_REQUESTED", "SLANG_ERROR"} => NoValidationDiag
    /\ pc = "SLANG_ERROR" =>
          (stderr # <<>> /\ stderr[Len(stderr)].fmt = FmtUnknownSlang /\ Count(FmtUnknownSlang) = 1)
    /\ pc = "HELP_REQUESTED" => opt = "h"

\* C13: a call ends in one of HELP_REQUESTED, SLANG_ERROR and DONE and stays
\* there. DONE is entered by the Validator only, which runs once, after the
\* scan has consumed every token without help flag and without unknown shader
\* language; the other two ends are entered from the scan without the
\* Validator, and nothing is written after the unknown-language message.
C13_OneExit == [][C13_Step]_vars /\ []C13_State

\* ended by an unknown shader language with input still missing
C13_Witness ==
    /\ pc = "SLANG_ERROR"
    /\ args.input = <<>>
    /\ args.output # <<>>
    /\ Len(stderr) = 2
    /\ stderr[1].fmt = FmtStray

----------------------------------------------------------------------------
(* C14 *)

EmptySegments(str) == { n \in 1..NumSegments(str) : Segment(str, n) = <<>> }

\* every segment of str that is not empty is a language name
NonEmptySegmentsKnown(str) == UnknownSegments(str) \subseteq EmptySegments(str)

\* C14 as stated: empty segments are skipped, so a -l value whose non-empty
\* segments are all language names is parsed with success, to the mask of
\* the languages it names.
C14_Original ==
    (opt = "l" /\ NonEmptySegmentsKnown(ctx.current_opt_arg)) =>
        /\ pc = "SCANNING"
        /\ \A i \in 0..(NUM - 1) : HasBit(args.slang, i) <=> i \in NamedIn(ctx.current_opt_arg)

\* C14 amended: parse_slang matches every segment of the colon-delimited
\* string, the empty ones too; an empty segment (from an empty string, a
\* leading or trailing ':' or a doubled '::') is no language name, so the
\* first of them that is reached ends the parse with the error for '' and
\* valid=false, exitCode=10; "glsl330::hlsl5" fails with the mask of glsl330.
C14_EmptySegmentIsUnknown ==
    opt = "l" =>
        /\ pc = "SCANNING" <=> UnknownSegments(ctx.current_opt_arg) = {}
        /\ EmptySegments(ctx.current_opt_arg) # {} =>
              /\ pc = "SLANG_ERROR"
              /\ ~args.valid
              /\ args.exit_code = 10
              /\ Segment(ctx.current_opt_arg, FirstUnknown(ctx.current_opt_arg)) = <<>>
                    => stderr[Len(stderr)] = [fmt |-> FmtUnknownSlang, arg |-> <<>>, idx |-> 2]

C14_Witness ==
    /\ opt = "l"
    /\ ctx.current_opt_arg = <<"glsl330", ":", ":", "hlsl5">>
    /\ pc = "SLANG_ERROR"
    /\ args.slang = 1
    /\ stderr[1].arg = <<>>

----------------------------------------------------------------------------
(* C15 *)

\* C15: a failed parse_slang leaves in slangMask exactly the bits of the
\* segments before the first unknown one, and that mask is returned with
\* valid=false.
C15_PartialMaskKept ==
    (opt = "l" /\ pc = "SLANG_ERROR") =>
        /\ \A i \in 0..(NUM - 1) :
              HasBit(args.slang, i)
                  <=> i \in NamedBefore(ctx.current_opt_arg, FirstUnknown(ctx.current_opt_arg))
        /\ args.slang < Pow2(NUM)
        /\ ~args.valid

C15_Witness ==
    /\ opt = "l"
    /\ pc = "SLANG_ERROR"
    /\ ctx.current_opt_arg = <<"glsl330", ":", "bogus">>
    /\ args.slang = 1
    /\ ~args.valid

----------------------------------------------------------------------------
(* C16 *)

\* the fields of args other than f are left as they are
OnlyChanges(f) == \A g \in (DOMAIN args) \ {f} : args'[g] = args[g]

C16_Step ==
    /\ pc = "SCANNING" =>
          /\ opt' \in {"+", "?", "!"} => args' = args
          /\ opt' = "i" => (OnlyChanges("input") /\ args'.input = ctx'.current_opt_arg)
          /\ opt' = "o" => (OnlyChanges("output") /\ args'.output = ctx'.current_opt_arg)
          /\ opt' = "b" => (OnlyChanges("byte_code") /\ args'.byte_code)
          /\ opt' = "d" => (OnlyChanges("debug_dump") /\ args'.debug_dump)
    /\ args.byte_code => args'.byte_code
    /\ args.debug_dump => args'.debug_dump

C16_State == pc = "START" => (~args.byte_code /\ ~args.debug_dump)

\* C16: a stray word, an unknown flag and an invalid use of a flag change no
\* field; -i changes input only, -o output only, -b byte_code only and to
\* true, -d debug_dump only and to true; both flags start false and, once
\* true, stay true to the return.
C16_Frame == [][C16_Step]_vars /\ []C16_State

\* -b given twice, with -i before
C16_Witness ==
    /\ pc = "SCANNING"
    /\ opt = "b"
    /\ args.byte_code
    /\ ~args.debug_dump
    /\ args.input # <<>>
    /\ ctx.current_index = 4
    /\ argv[3] = Tok("-", "b")
    /\ argv[4] = Tok("-", "b")

----------------------------------------------------------------------------
(* C17 *)

\* the languages a -l with value v leaves in the mask
MaskOf(v) ==
    IF UnknownSegments(v) = {} THEN NamedIn(v) ELSE NamedBefore(v, FirstUnknown(v))

SuppliedPositions(c) == { k \in 1..Len(argv) : SuppliedAt(c, k) }
LastSupplied(c) == CHOOSE k \in SuppliedPositions(c) : \A j \in SuppliedPositions(c) : j <= k

\* C17: every -l starts from a zero mask: right after a -l, slangMask holds
\* what that -l's value alone gives (all its languages on success, those
\* before the first unknown segment on failure), whatever an earlier -l had
\* set; after a finished scan it is the mask of the last -l value.
C17_LastSlangWins ==
    /\ opt = "l" =>
          \A i \in 0..(NUM - 1) : HasBit(args.slang, i) <=> i \in MaskOf(ctx.current_opt_arg)
    /\ pc = "DONE" =>
          \A i \in 0..(NUM - 1) :
              HasBit(args.slang, i)
                  <=> (SuppliedPositions("l") # {} /\ i \in NamedIn(argv[LastSupplied("l") + 1]))

\* hlsl5:glsl330 first, glsl330 last
C17_Witness ==
    /\ pc = "DONE"
    /\ Cardinality(SuppliedPositions("l")) = 2
    /\ argv[2] = <<"hlsl5", ":", "glsl330">>
    /\ argv[LastSupplied("l") + 1] = <<"glsl330">>
    /\ args.slang = 1

----------------------------------------------------------------------------
(* C18 *)

\* the tokens that end the parse early: a help flag, a -l with a failing value
Terminators == HelpPositions \cup { k \in 1..Len(argv) : FailingSlangAt(k) }
FirstTerminator == CHOOSE k \in Terminators : \A j \in Terminators : k <= j

\* the value of the last -c supplied before token t, <<>> when there is none
LastValueBefore(c, t) ==
    LET ks == { k \in 1..(t - 1) : SuppliedAt(c, k) } IN
      IF ks = {} THEN <<>>
      ELSE argv[(CHOOSE k \in ks : \A j \in ks : j <= k) + 1]

C18_State ==
    (Returned /\ Terminators # {}) =>
        LET t == FirstTerminator
            help == argv[t] = HelpTok
            end == IF help THEN t ELSE t + 1
        IN
          /\ pc = (IF help THEN "HELP_REQUESTED" ELSE "SLANG_ERROR")
          /\ args.exit_code = (IF help THEN 0 ELSE 10)
          /\ ~args.valid
          /\ ctx.current_index = end
          /\ \A k \in 1..Len(stderr) : stderr[k].idx <= end
          /\ args.input = LastValueBefore("i", t)
          /\ args.output = LastValueBefore("o", t)
          /\ args.byte_code <=> \E k \in 1..(t - 1) : argv[k] = Tok("-", "b")
          /\ args.debug_dump <=> \E k \in 1..(t - 1) : argv[k] = Tok("-", "d")
          /\ \A i \in 0..(NUM - 1) :
                HasBit(args.slang, i) <=>
                    i \in (IF help THEN (IF LastValueBefore("l", t) = <<>> THEN {}
                                         ELSE NamedIn(LastValueBefore("l", t)))
                           ELSE MaskOf(argv[t + 1]))

C18_Step == pc \in {"HELP_REQUESTED", "SLANG_ERROR"} => UNCHANGED vars

\* C18: the first help flag or failing -l of the list ends the parse: the
\* tokens after it are not consumed, write nothing and change nothing; the
\* fields hold what the tokens before it set; the exit code is 0 when that
\* token is the help flag and 10 when it is the failing -l.
C18_Frozen == [][C18_Step]_vars /\ []C18_State

\* -b, then -h, then a failing -l and a -d that are never looked at
C18_Witness ==
    /\ pc = "HELP_REQUESTED"
    /\ args.exit_code = 0
    /\ args.byte_code
    /\ ~args.debug_dump
    /\ ctx.current_index = 2
    /\ Len(argv) = 5
    /\ FailingSlangAt(3)
    /\ argv[5] = Tok("-", "d")

----------------------------------------------------------------------------
(* One call of parse run to its end: parse is sequential code, a step that
   can be taken is taken *)

FairArgLists == { Flatten(us) : us \in UNION { [1..n -> Units] : n \in 0..MaxFairUnits } }

InitFair ==
    /\ argv \in FairArgLists
    /\ ctx = [current_index |-> 0, current_opt_arg |-> <<>>]
    /\ opt = "0"
    /\ args = args_t_default
    /\ stderr = <<>>
    /\ pc = "START"
    /\ calls = <<>>

FairSpec == InitFair /\ [][Next]_vars /\ WF_vars(Next)

----------------------------------------------------------------------------
(* C19 *)

C19_Step ==
    (pc = "SCANNING" /\ opt' # "-1") =>
        /\ ctx'.current_index > ctx.current_index
        /\ ctx'.current_index <= Len(argv)

\* C19: parse terminates: every pass of the loop that handles a scan event
\* moves the scanner forward by at least one token and never past the end of
\* the list, so there are at most as many events as tokens, and the call
\* gets to one of HELP_REQUESTED, SLANG_ERROR and DONE.
C19_Terminates == [][C19_Step]_vars /\ <>Returned

\* a list of six tokens consumed in three events
C19_Witness ==
    /\ pc = "DONE"
    /\ Len(argv) = 6
    /\ ctx.current_index = 6
    /\ args.input # <<>>
    /\ Count(FmtInvalidUse) = 0
    /\ Count(FmtStray) = 0

====
